---- MODULE Spec2Model ----
(***************************************************************************)
(* State-machine model of stage178/qsp/minicore.py (MiniCore, MiniSession). *)
(*                                                                         *)
(* Python values are tagged records [t, n, q, w]: t the type, n the value  *)
(* of an int, q the bytes of a byte string or the code points of a str     *)
(* that gets encoded (the mode), w the text of a frame-type str, which is  *)
(* only ever compared.  A call ends "ok" (it returned), "violation" (it raised   *)
(* ProtocolViolation) or "error" (it raised OverflowError from             *)
(* int.to_bytes).                                                          *)
(*                                                                         *)
(* twin is a second MiniCore object, constructed on its own, to which the  *)
(* operations accepted by the first are replayed; rekey_log lists the      *)
(* epochs of the REKEY frames the first accepted.  core and sess are the   *)
(* ProtocolCore of stage178/qsp/core.py and the SessionState of            *)
(* stage178/qsp/session.py, each with the record of its last call.         *)
(***************************************************************************)
EXTENDS Integers, Sequences, FiniteSets, TLC

VARIABLES s, pre, call, out, hs_accepted, calls, twin, rekey_log,
          core, core_h, sess, sess_h

\* the MiniCore object under test and its twin
miniVars == <<s, pre, call, out, hs_accepted, calls, twin, rekey_log>>
\* the ProtocolCore object
coreVars == <<core, core_h>>
\* the SessionState object
sessVars == <<sess, sess_h>>
vars == <<miniVars, coreVars, sessVars>>

\* ------------------------------------------------------------------ bounds
\* Radix of one digit of int.to_bytes (256 in the program, scaled down so
\* that the 8-digit range fits the checker's integers).
DigitBase == 2
\* Number of calls made on one MiniCore object.
MaxCalls == 3
\* Number of calls made on one MiniCore object that is sent REKEY frames
\* over and over.
MaxReplayCalls == 5
\* Number of calls made on one ProtocolCore object.
MaxCoreCalls == 4
\* Largest epoch a SessionState is driven to.
MaxEpoch == 10

\* ------------------------------------------------------- Python values
Py(t) == [t |-> t, n |-> 0, q |-> <<>>, w |-> ""]
PyNone == Py("none")
\* a key the dict does not hold
PyAbsent == Py("absent")
PyFloat == Py("float")
PyInt(n) == [Py("int") EXCEPT !.n = n]
\* a str given by its code points
PyStr(q) == [Py("str") EXCEPT !.q = q]
\* a frame-type str
PyName(w) == [Py("str") EXCEPT !.w = w]
PyBytes(b) == [Py("bytes") EXCEPT !.q = b]

\* the first argument of accept_frame: a Python value, with its keys in d
\* when it is a dict
NoKeys ==
    [type |-> PyAbsent, frame_type |-> PyAbsent, session_id |-> PyAbsent,
     epoch |-> PyAbsent, payload |-> PyAbsent, mode |-> PyAbsent]
Arg(x) == [t |-> x.t, n |-> x.n, q |-> x.q, w |-> x.w, d |-> NoKeys]
PyDict(d) == [Arg(Py("dict")) EXCEPT !.d = d]

\* isinstance(x, int), isinstance(x, str), isinstance(x, (bytes, bytearray))
IsInt(x) == x.t = "int"
IsStr(x) == x.t = "str"
IsBytes(x) == x.t = "bytes"
IsDict(x) == x.t = "dict"

\* dict.get(key): a missing key reads as None
Get(x) == IF x.t = "absent" THEN PyNone ELSE x
\* dict.get(key, default)
GetDefault(x, d) == IF x.t = "absent" THEN d ELSE x

\* Python truthiness, as used by `a or b`
Truthy(x) ==
    CASE x.t = "none" -> FALSE
      [] x.t = "absent" -> FALSE
      [] x.t = "int" -> x.n # 0
      [] x.t = "str" -> x.w # "" \/ x.q # <<>>
      [] x.t = "bytes" -> x.q # <<>>
      [] OTHER -> TRUE

\* --------------------------------------------------------- byte literals
B_init == <<105, 110, 105, 116>>
B_hs == <<104, 115>>
B_rekey == <<114, 101, 107, 101, 121>>
B_advance == <<97, 100, 118, 97, 110, 99, 101>>
B_MODE == <<77, 79, 68, 69, 58>>
B_OK_HS == <<79, 75, 58, 72, 83>>
B_OK_REKEY == <<79, 75, 58, 82, 69, 75, 69, 89>>
B_OK_APP_DATA == <<79, 75, 58, 65, 80, 80, 95, 68, 65, 84, 65, 58>>
\* "PQC+QKD" and "PQC_ONLY" as code points
PQC_QKD == <<80, 81, 67, 43, 81, 75, 68>>
PQC_ONLY == <<80, 81, 67, 95, 79, 78, 76, 89>>
DefaultMode == PQC_QKD

\* ------------------------------------------------------ int.to_bytes(8)
ToBytesLen == 8

RECURSIVE Pow(_, _)
Pow(b, n) == IF n = 0 THEN 1 ELSE b * Pow(b, n - 1)

\* one past the largest unsigned value of ToBytesLen digits (2^64 in the program)
UnsignedLimit == Pow(DigitBase, ToBytesLen)
\* one past the largest signed value (2^63 in the program)
SignedLimit == UnsignedLimit \div 2

\* n.to_bytes(8, "big", signed=signed): big-endian digits, two's complement
\* for a negative signed value; ok = FALSE is OverflowError.
to_bytes(n, signed) ==
    LET lo == IF signed THEN 0 - SignedLimit ELSE 0
        hi == IF signed THEN SignedLimit - 1 ELSE UnsignedLimit - 1
        m == IF n < 0 THEN n + UnsignedLimit ELSE n
    IN IF n < lo \/ n > hi
       THEN [ok |-> FALSE, b |-> <<>>]
       ELSE [ok |-> TRUE,
             b |-> [i \in 1..ToBytesLen |->
                      (m \div Pow(DigitBase, ToBytesLen - i)) % DigitBase]]

\* ------------------------------------------------------------- UTF-8
\* str.encode("utf-8") for code points below 2048 (one- and two-byte forms)
RECURSIVE Utf8Encode(_)
Utf8Encode(str) ==
    IF str = <<>> THEN <<>>
    ELSE LET cp == Head(str)
         IN (IF cp < 128 THEN <<cp>>
             ELSE <<192 + (cp \div 64), 128 + (cp % 64)>>)
            \o Utf8Encode(Tail(str))

\* bytes.decode("utf-8", errors="strict") for one- and two-byte forms;
\* ok = FALSE is UnicodeDecodeError.
RECURSIVE Utf8Decode(_)
Utf8Decode(b) ==
    IF b = <<>> THEN [ok |-> TRUE, str |-> <<>>]
    ELSE LET b1 == Head(b)
         IN IF b1 < 128
            THEN LET r == Utf8Decode(Tail(b))
                 IN [ok |-> r.ok, str |-> <<b1>> \o r.str]
            ELSE IF b1 >= 194 /\ b1 <= 223 /\ Len(b) >= 2
                    /\ b[2] >= 128 /\ b[2] <= 191
            THEN LET r == Utf8Decode(Tail(Tail(b)))
                 IN [ok |-> r.ok,
                     str |-> <<(b1 - 192) * 64 + (b[2] - 128)>> \o r.str]
            ELSE [ok |-> FALSE, str |-> <<>>]

\* bytes.startswith(prefix)
StartsWith(b, prefix) ==
    Len(b) >= Len(prefix) /\ SubSeq(b, 1, Len(prefix)) = prefix

\* ------------------------------------------------------------- SHA-256
\* hashlib.sha256(data).digest(), idealised as collision-free: the digest
\* is the bracketed preimage.
_h(data) == <<0 - 1>> \o data \o <<0 - 2>>

\* hashlib.sha256(data).hexdigest(): the same, as text
hexdigest(data) == <<0 - 3>> \o data \o <<0 - 4>>

\* ------------------------------------------------------------ MiniSession
\* MiniSession(expected_session_id=session_id)
MiniSession(expected) ==
    [expected_session_id |-> expected,
     session_id |-> 0,
     epoch |-> 0,
     handshake_complete |-> FALSE,
     closed |-> FALSE,
     key_material |-> B_init,
     mode |-> PyNone]

fingerprint_hex(ss) == hexdigest(ss.key_material)

\* outcomes of a call: the session it leaves, how it ended, the reason text
\* of a ProtocolViolation, the value returned
NoResult ==
    [ok |-> FALSE, detail |-> "", epoch |-> 0, session_id |-> 0,
     key_fingerprint_hex |-> <<>>]
\* a call that returned: ret is the bytes a legacy call returns, result the
\* MiniResult a structured call returns
Ok(ss, ret, result) ==
    [s |-> ss, outcome |-> "ok", reason |-> "", ret |-> ret, result |-> result]
Overflow(ss) ==
    [s |-> ss, outcome |-> "error", reason |-> "OverflowError", ret |-> PyNone,
     result |-> NoResult]

\* mutant: closing discards the key material
close_wipe(ss, reason) ==
    [s |-> [ss EXCEPT !.closed = TRUE, !.key_material = B_init],
     outcome |-> "violation", reason |-> reason, ret |-> PyNone,
     result |-> NoResult]

\* mutant: the exception is raised without setting the flag
close_noflag(ss, reason) ==
    [s |-> ss, outcome |-> "violation", reason |-> reason, ret |-> PyNone,
     result |-> NoResult]

\* MiniSession.close(reason): set closed, raise ProtocolViolation(reason)
close(ss, reason) ==
    [s |-> [ss EXCEPT !.closed = TRUE],
     outcome |-> "violation", reason |-> reason, ret |-> PyNone,
     result |-> NoResult]

MiniResult(ok, detail, ss) ==
    [ok |-> ok, detail |-> detail, epoch |-> ss.epoch,
     session_id |-> ss.session_id,
     key_fingerprint_hex |-> fingerprint_hex(ss)]

\* ------------------------------------------------------ the guards
\* mutant: the current epoch is let through as well
RekeyEpochOk_repeat(epoch, current) == epoch = current \/ epoch = current + 1

\* mutant: any later epoch is let through
RekeyEpochOk_ahead(epoch, current) == epoch > current

\* `if epoch != self.s.epoch + 1` (REKEY) passes
RekeyEpochOk(epoch, current) == epoch = current + 1

\* mutant: a stale epoch is let through
AppDataEpochOk_stale(epoch, current) == epoch <= current

\* `if epoch != self.s.epoch` (APP_DATA) passes
AppDataEpochOk(epoch, current) == epoch = current

\* mutant: the identity is not compared
SessionIdOk_skip(sid, session_id) == TRUE

\* `if sid != self.s.session_id` passes
SessionIdOk(sid, session_id) == sid = session_id

\* `if self.s.expected_session_id is not None and sid != expected` passes
ExpectedIdOk(sid, expected) == expected.t = "none" \/ PyInt(sid) = expected

\* `if epoch < 1` (structured handshake) passes
DictHandshakeEpochOk(epoch) == epoch >= 1

\* `if claimed_epoch < 0` (legacy handshake) passes
OldHandshakeEpochOk(epoch) == epoch >= 0

\* mutant: the handshake counts as done only while the session is open
HandshakeDone_unlessClosed(ss) == ss.handshake_complete /\ ~ss.closed

\* `if not self.s.handshake_complete: close("before handshake")` passes
HandshakeDone(ss) == ss.handshake_complete

\* mutant: the epoch is advanced under the old key material
advance_epoch_samekey(ss) ==
    IF ~HandshakeDone(ss) THEN close(ss, "before handshake")
    ELSE LET s1 == [ss EXCEPT !.epoch = ss.epoch + 1]
             eb == to_bytes(s1.epoch, TRUE)
         IN IF ~eb.ok THEN Overflow(s1)
            ELSE Ok(s1, PyNone, NoResult)

\* ------------------------------------------------- MiniCore.advance_epoch
advance_epoch(ss) ==
    IF ~HandshakeDone(ss) THEN close(ss, "before handshake")
    ELSE LET s1 == [ss EXCEPT !.epoch = ss.epoch + 1]
             eb == to_bytes(s1.epoch, TRUE)
         IN IF ~eb.ok THEN Overflow(s1)
            ELSE Ok([s1 EXCEPT !.key_material =
                        _h(ss.key_material \o B_advance \o eb.b)], PyNone, NoResult)

\* mutant: the claim is compared with the default mode, not the pinned one
_guard_mode_dict_default(ss, frame) ==
    LET mode == Get(frame.mode)
    IN IF mode.t = "none" THEN ""
       ELSE IF ~IsStr(mode) THEN "Invalid mode"
       ELSE IF ss.mode.t = "none" THEN ""
       ELSE IF mode # PyStr(DefaultMode) THEN "downgrade detected"
       ELSE ""

\* ---------------------------------------------- MiniCore._guard_mode_dict
\* the reason it closes the session with, "" when it returns normally
_guard_mode_dict(ss, frame) ==
    LET mode == Get(frame.mode)
    IN IF mode.t = "none" THEN ""
       ELSE IF ~IsStr(mode) THEN "Invalid mode"
       ELSE IF ss.mode.t = "none" THEN ""
       ELSE IF mode # ss.mode THEN "downgrade detected"
       ELSE ""

\* mutant: the marker is decoded but never compared
_guard_mode_old_nocompare(ss, payload_b) ==
    IF ~StartsWith(payload_b, B_MODE) THEN ""
    ELSE LET d == Utf8Decode(SubSeq(payload_b, Len(B_MODE) + 1, Len(payload_b)))
         IN IF ~d.ok THEN "Invalid mode" ELSE ""

\* ----------------------------------------------- MiniCore._guard_mode_old
_guard_mode_old(ss, payload_b) ==
    IF ~StartsWith(payload_b, B_MODE) THEN ""
    ELSE LET d == Utf8Decode(SubSeq(payload_b, Len(B_MODE) + 1, Len(payload_b)))
         IN IF ~d.ok THEN "Invalid mode"
            ELSE IF ss.mode.t = "none" THEN ""
            ELSE IF PyStr(d.str) # ss.mode THEN "downgrade detected"
            ELSE ""

\* mutant: the handshake_complete latch is not set
HandshakeCommit_nolatch(ss, sid, epoch, mode) ==
    LET s1 == [ss EXCEPT !.mode = mode, !.session_id = sid, !.epoch = epoch]
        sb == to_bytes(sid, FALSE)
        eb == to_bytes(epoch, TRUE)
    IN IF ~sb.ok \/ ~eb.ok THEN [ok |-> FALSE, s |-> s1]
       ELSE [ok |-> TRUE,
             s |-> [s1 EXCEPT !.key_material =
                       _h(B_hs \o sb.b \o eb.b \o Utf8Encode(mode.q))]]

\* mutant: the mode is hashed but not stored
HandshakeCommit_nopin(ss, sid, epoch, mode) ==
    LET s1 == [ss EXCEPT !.session_id = sid, !.epoch = epoch,
                         !.handshake_complete = TRUE]
        sb == to_bytes(sid, FALSE)
        eb == to_bytes(epoch, TRUE)
    IN IF ~sb.ok \/ ~eb.ok THEN [ok |-> FALSE, s |-> s1]
       ELSE [ok |-> TRUE,
             s |-> [s1 EXCEPT !.key_material =
                       _h(B_hs \o sb.b \o eb.b \o Utf8Encode(mode.q))]]

\* the handshake's assignments and key derivation, shared by both handlers:
\* mode, session_id, epoch and handshake_complete are stored before the
\* key material is computed, and to_bytes may raise in between
HandshakeCommit(ss, sid, epoch, mode) ==
    LET s1 == [ss EXCEPT !.mode = mode, !.session_id = sid, !.epoch = epoch,
                         !.handshake_complete = TRUE]
        sb == to_bytes(sid, FALSE)
        eb == to_bytes(epoch, TRUE)
    IN IF ~sb.ok \/ ~eb.ok THEN [ok |-> FALSE, s |-> s1]
       ELSE [ok |-> TRUE,
             s |-> [s1 EXCEPT !.key_material =
                       _h(B_hs \o sb.b \o eb.b \o Utf8Encode(mode.q))]]

\* mutant: the closed flag is folded into the key material
RekeyCommit_closed(ss, epoch, payload_b) ==
    LET s1 == [ss EXCEPT !.epoch = epoch]
        eb == to_bytes(epoch, TRUE)
    IN IF ~eb.ok THEN [ok |-> FALSE, s |-> s1]
       ELSE [ok |-> TRUE,
             s |-> [s1 EXCEPT !.key_material =
                       _h(ss.key_material \o B_rekey \o eb.b \o payload_b
                            \o (IF ss.closed THEN <<1>> ELSE <<0>>))]]

\* REKEY's assignments: epoch is stored before the key material is computed
RekeyCommit(ss, epoch, payload_b) ==
    LET s1 == [ss EXCEPT !.epoch = epoch]
        eb == to_bytes(epoch, TRUE)
    IN IF ~eb.ok THEN [ok |-> FALSE, s |-> s1]
       ELSE [ok |-> TRUE,
             s |-> [s1 EXCEPT !.key_material =
                       _h(ss.key_material \o B_rekey \o eb.b \o payload_b)]]

\* mutant: an APP_DATA frame moves the session to the next epoch
_accept_dict_frame_appbump(ss, frame) ==
    LET ft == IF Truthy(Get(frame.type)) THEN Get(frame.type) ELSE Get(frame.frame_type)
        sid == Get(frame.session_id)
        epoch == Get(frame.epoch)
        p0 == GetDefault(frame.payload, PyBytes(<<>>))
        payload_b == IF p0.t = "none" THEN PyBytes(<<>>) ELSE p0
    IN IF ~IsStr(ft) THEN close(ss, "Missing frame type")
       ELSE IF ~IsInt(sid) \/ ~IsInt(epoch) THEN close(ss, "Invalid session_id or epoch")
       ELSE IF ~IsBytes(payload_b) THEN close(ss, "Invalid payload")
       ELSE IF ft.w = "HANDSHAKE_DONE" THEN
            IF HandshakeDone(ss) THEN close(ss, "Duplicate handshake")
            ELSE IF ~DictHandshakeEpochOk(epoch.n) THEN close(ss, "Handshake epoch must be >= 1")
            ELSE IF ~ExpectedIdOk(sid.n, ss.expected_session_id) THEN close(ss, "session mismatch")
            ELSE LET mode == GetDefault(frame.mode, PyStr(DefaultMode))
                 IN IF ~IsStr(mode) THEN close(ss, "Invalid mode")
                    ELSE LET c == HandshakeCommit(ss, sid.n, epoch.n, mode)
                         IN IF ~c.ok THEN Overflow(c.s)
                            ELSE Ok(c.s, PyNone, MiniResult(TRUE, "handshake", c.s))
       ELSE IF ~HandshakeDone(ss) THEN close(ss, "before handshake")
       ELSE IF _guard_mode_dict(ss, frame) # "" THEN close(ss, _guard_mode_dict(ss, frame))
       ELSE IF ~SessionIdOk(sid.n, ss.session_id) THEN close(ss, "session mismatch")
       ELSE IF ft.w = "REKEY" THEN
            IF ~RekeyEpochOk(epoch.n, ss.epoch) THEN close(ss, "bad rekey epoch")
            ELSE LET c == RekeyCommit(ss, epoch.n, payload_b.q)
                 IN IF ~c.ok THEN Overflow(c.s)
                    ELSE Ok(c.s, PyNone, MiniResult(TRUE, "rekey", c.s))
       ELSE IF ft.w = "APP_DATA" THEN
            IF ~AppDataEpochOk(epoch.n, ss.epoch) THEN close(ss, "epoch mismatch")
            ELSE Ok([ss EXCEPT !.epoch = ss.epoch + 1], PyNone,
                    MiniResult(TRUE, "app", [ss EXCEPT !.epoch = ss.epoch + 1]))
       ELSE close(ss, "unknown frame")

\* --------------------------------------------- MiniCore._accept_dict_frame
_accept_dict_frame(ss, frame) ==
    LET ft == IF Truthy(Get(frame.type)) THEN Get(frame.type) ELSE Get(frame.frame_type)
        sid == Get(frame.session_id)
        epoch == Get(frame.epoch)
        p0 == GetDefault(frame.payload, PyBytes(<<>>))
        payload_b == IF p0.t = "none" THEN PyBytes(<<>>) ELSE p0
    IN IF ~IsStr(ft) THEN close(ss, "Missing frame type")
       ELSE IF ~IsInt(sid) \/ ~IsInt(epoch) THEN close(ss, "Invalid session_id or epoch")
       ELSE IF ~IsBytes(payload_b) THEN close(ss, "Invalid payload")
       ELSE IF ft.w = "HANDSHAKE_DONE" THEN
            IF HandshakeDone(ss) THEN close(ss, "Duplicate handshake")
            ELSE IF ~DictHandshakeEpochOk(epoch.n) THEN close(ss, "Handshake epoch must be >= 1")
            ELSE IF ~ExpectedIdOk(sid.n, ss.expected_session_id) THEN close(ss, "session mismatch")
            ELSE LET mode == GetDefault(frame.mode, PyStr(DefaultMode))
                 IN IF ~IsStr(mode) THEN close(ss, "Invalid mode")
                    ELSE LET c == HandshakeCommit(ss, sid.n, epoch.n, mode)
                         IN IF ~c.ok THEN Overflow(c.s)
                            ELSE Ok(c.s, PyNone, MiniResult(TRUE, "handshake", c.s))
       ELSE IF ~HandshakeDone(ss) THEN close(ss, "before handshake")
       ELSE IF _guard_mode_dict(ss, frame) # "" THEN close(ss, _guard_mode_dict(ss, frame))
       ELSE IF ~SessionIdOk(sid.n, ss.session_id) THEN close(ss, "session mismatch")
       ELSE IF ft.w = "REKEY" THEN
            IF ~RekeyEpochOk(epoch.n, ss.epoch) THEN close(ss, "bad rekey epoch")
            ELSE LET c == RekeyCommit(ss, epoch.n, payload_b.q)
                 IN IF ~c.ok THEN Overflow(c.s)
                    ELSE Ok(c.s, PyNone, MiniResult(TRUE, "rekey", c.s))
       ELSE IF ft.w = "APP_DATA" THEN
            IF ~AppDataEpochOk(epoch.n, ss.epoch) THEN close(ss, "epoch mismatch")
            ELSE Ok(ss, PyNone, MiniResult(TRUE, "app", ss))
       ELSE close(ss, "unknown frame")

\* ---------------------------------------------- MiniCore._accept_old_style
_accept_old_style(ss, ft, payload, claimed_session_id, claimed_epoch) ==
    LET payload_b == IF payload.t = "none" THEN <<>> ELSE payload.q
    IN IF ~IsInt(claimed_session_id) \/ ~IsInt(claimed_epoch)
       THEN close(ss, "Invalid claimed_session_id or claimed_epoch")
       ELSE IF ~(payload.t = "none" \/ IsBytes(payload)) THEN close(ss, "Invalid payload")
       ELSE IF ft = "HS" THEN
            IF HandshakeDone(ss) THEN close(ss, "Duplicate handshake")
            ELSE IF ~ExpectedIdOk(claimed_session_id.n, ss.expected_session_id)
                 THEN close(ss, "session mismatch")
            ELSE IF ~OldHandshakeEpochOk(claimed_epoch.n) THEN close(ss, "bad epoch")
            ELSE LET c == HandshakeCommit(ss, claimed_session_id.n, claimed_epoch.n,
                                          PyStr(DefaultMode))
                 IN IF ~c.ok THEN Overflow(c.s)
                    ELSE Ok(c.s, PyBytes(B_OK_HS), NoResult)
       ELSE IF ~HandshakeDone(ss) THEN close(ss, "before handshake")
       ELSE IF _guard_mode_old(ss, payload_b) # "" THEN close(ss, _guard_mode_old(ss, payload_b))
       ELSE IF ~SessionIdOk(claimed_session_id.n, ss.session_id) THEN close(ss, "session mismatch")
       ELSE IF ft = "REKEY" THEN
            IF ~RekeyEpochOk(claimed_epoch.n, ss.epoch) THEN close(ss, "bad rekey epoch")
            ELSE LET c == RekeyCommit(ss, claimed_epoch.n, payload_b)
                 IN IF ~c.ok THEN Overflow(c.s)
                    ELSE Ok(c.s, PyBytes(B_OK_REKEY), NoResult)
       ELSE IF ft = "APP_DATA" THEN
            IF ~AppDataEpochOk(claimed_epoch.n, ss.epoch) THEN close(ss, "epoch mismatch")
            ELSE Ok(ss, PyBytes(B_OK_APP_DATA \o payload_b), NoResult)
       ELSE close(ss, "unknown frame")

\* mutant: whatever is not a dict is handled as a legacy call
accept_frame_coerce(ss, ft_or_frame, payload, claimed_session_id, claimed_epoch) ==
    IF IsDict(ft_or_frame) THEN _accept_dict_frame(ss, ft_or_frame.d)
    ELSE _accept_old_style(ss, ft_or_frame.w, payload, claimed_session_id, claimed_epoch)

\* --------------------------------------------------- MiniCore.accept_frame
accept_frame(ss, ft_or_frame, payload, claimed_session_id, claimed_epoch) ==
    IF IsDict(ft_or_frame) THEN _accept_dict_frame(ss, ft_or_frame.d)
    ELSE IF IsStr(ft_or_frame)
         THEN _accept_old_style(ss, ft_or_frame.w, payload, claimed_session_id, claimed_epoch)
    ELSE close(ss, "Invalid frame input")

\* ------------------------------------------------------------ the inputs
B_x == <<120>>
\* b"MODE:" + b"\xff": a marker whose text is not UTF-8
B_MODE_bad == B_MODE \o <<255>>

FrameTypes == {"HANDSHAKE_DONE", "HS", "REKEY", "APP_DATA"}
SessionIds == {1, 2}
Epochs == {0 - 1, 0, 1, 2}
\* <<identity, epoch>> pairs at the limits of the 8-byte encodings
ExtremePairs ==
    {<<0 - 1, 1>>, <<UnsignedLimit, 1>>, <<1, SignedLimit - 1>>, <<1, SignedLimit>>}
ModeStrings == {PQC_QKD, PQC_ONLY}
DictModes == {PyAbsent} \cup {PyStr(m) : m \in ModeStrings}
DictPayloads == {<<>>, B_MODE \o Utf8Encode(PQC_ONLY)}
OldPayloads == {<<>>, B_x, B_MODE_bad} \cup {B_MODE \o Utf8Encode(m) : m \in ModeStrings}
ExpectedIds == {PyNone, PyInt(1)}

\* accept_frame({...}): a structured frame; payload, claimed_session_id and
\* claimed_epoch keep their defaults
DictCall(type, frame_type, sid, epoch, payload, mode) ==
    [op |-> "accept_frame",
     ft_or_frame |-> PyDict([type |-> type, frame_type |-> frame_type,
                             session_id |-> sid, epoch |-> epoch,
                             payload |-> payload, mode |-> mode]),
     payload |-> PyNone, claimed_session_id |-> PyNone, claimed_epoch |-> PyNone]

\* accept_frame(ft, payload, claimed_session_id=..., claimed_epoch=...)
OldCall(ft, payload, sid, epoch) ==
    [op |-> "accept_frame", ft_or_frame |-> Arg(ft), payload |-> payload,
     claimed_session_id |-> sid, claimed_epoch |-> epoch]

AdvanceCall ==
    [op |-> "advance_epoch", ft_or_frame |-> Arg(PyNone), payload |-> PyNone,
     claimed_session_id |-> PyNone, claimed_epoch |-> PyNone]

NoCall ==
    [op |-> "none", ft_or_frame |-> Arg(PyNone), payload |-> PyNone,
     claimed_session_id |-> PyNone, claimed_epoch |-> PyNone]

WellFormedDictCalls ==
    {DictCall(PyName(ty), PyAbsent, PyInt(sid), PyInt(e), PyBytes(p), m) :
        ty \in FrameTypes, sid \in SessionIds, e \in Epochs,
        p \in DictPayloads, m \in DictModes}
    \cup {DictCall(PyName(ty), PyAbsent, PyInt(x[1]), PyInt(x[2]), PyBytes(<<>>), PyAbsent) :
        ty \in FrameTypes, x \in ExtremePairs}

WellFormedOldCalls ==
    {OldCall(PyName(ty), PyBytes(p), PyInt(sid), PyInt(e)) :
        ty \in FrameTypes, sid \in SessionIds, e \in Epochs, p \in OldPayloads}
    \cup {OldCall(PyName(ty), PyNone, PyInt(x[1]), PyInt(x[2])) :
        ty \in FrameTypes, x \in ExtremePairs}

\* calls with one field missing or of the wrong Python type
MalformedCalls ==
    {OldCall(PyInt(7), PyNone, PyInt(1), PyInt(1))}
    \cup {DictCall(ty, fty, PyInt(1), PyInt(1), PyBytes(<<>>), PyAbsent) :
            ty \in {PyAbsent, PyInt(7), PyName("")},
            fty \in {PyAbsent, PyName("HANDSHAKE_DONE"), PyName("APP_DATA")}}
    \cup {DictCall(PyName(ty), PyAbsent, sid, PyInt(1), PyBytes(<<>>), PyAbsent) :
            ty \in {"HANDSHAKE_DONE", "REKEY"}, sid \in {PyAbsent, PyStr(PQC_QKD)}}
    \cup {DictCall(PyName(ty), PyAbsent, PyInt(1), PyFloat, PyBytes(<<>>), PyAbsent) :
            ty \in {"HANDSHAKE_DONE", "REKEY"}}
    \cup {DictCall(PyName(ty), PyAbsent, PyInt(1), PyInt(e), p, PyAbsent) :
            ty \in {"HANDSHAKE_DONE", "REKEY"}, e \in {1, 2},
            p \in {PyAbsent, PyNone, PyStr(PQC_QKD)}}
    \cup {DictCall(PyName(ty), PyAbsent, PyInt(sid), PyInt(e), PyBytes(<<>>), m) :
            ty \in {"HANDSHAKE_DONE", "APP_DATA"}, sid \in {1, 2}, e \in {0, 1},
            m \in {PyNone, PyInt(7)}}
    \cup {OldCall(PyName(ty), PyNone, sid, e) :
            ty \in {"HS", "REKEY"},
            sid \in {PyNone, PyInt(1)}, e \in {PyFloat, PyInt(1)}}
    \cup {OldCall(PyName(ty), PyStr(PQC_QKD), PyInt(1), PyInt(1)) :
            ty \in {"HS", "REKEY"}}

Calls == WellFormedDictCalls \cup WellFormedOldCalls \cup MalformedCalls

\* ------------------------------------------------------- the state machine
\* s is the MiniSession of one MiniCore object.  While a call's outcome is
\* with the caller, call is the call made, pre the session as it was when
\* the call was made and out its outcome; between calls call = NoCall.
\* hs_accepted counts the HANDSHAKE frames accepted so far (the calls that
\* returned normally), calls counts the calls made so far.
NoOutcome == [outcome |-> "none", reason |-> "", ret |-> PyNone, result |-> NoResult]

\* the twin: a MiniSession of its own; ok says that every operation replayed
\* to it so far was accepted
Twin(expected) == [s |-> MiniSession(expected), ok |-> TRUE]

\* MiniCore(session_id), twice: fresh sessions, each optionally pinned to an
\* identity
MiniStart(expected, expected2) ==
    /\ s = MiniSession(expected)
    /\ pre = s
    /\ call = NoCall
    /\ out = NoOutcome
    /\ hs_accepted = 0
    /\ calls = 0
    /\ twin = Twin(expected2)
    /\ rekey_log = <<>>

\* ProtocolCore(): handshake_complete defaults to False
ProtocolCore == [handshake_complete |-> FALSE]
NoCoreCall == [frame_type |-> PyNone, payload |-> PyNone]
\* the record of the last ProtocolCore call: the object before it, the call,
\* its outcome, and the counts of accepted HS frames and of calls so far
NoCoreHistory ==
    [pre |-> ProtocolCore, call |-> NoCoreCall,
     out |-> [outcome |-> "none", ret |-> PyNone],
     hs_accepted |-> 0, calls |-> 0]
CoreStart == core = ProtocolCore /\ core_h = NoCoreHistory

\* SessionState(): epoch starts at 0
SessionState == [epoch |-> 0]
\* the record of the last SessionState call
NoSessHistory ==
    [pre |-> SessionState, call |-> [op |-> "none", new_epoch |-> 0],
     out |-> [outcome |-> "none", ret |-> 0]]
SessStart == sess = SessionState /\ sess_h = NoSessHistory

Init ==
    /\ \E expected, expected2 \in ExpectedIds : MiniStart(expected, expected2)
    /\ CoreStart
    /\ SessStart

\* ---- a call as the handlers read it
IsFrameCall(c) == c.op = "accept_frame"
IsDictCall(c) == IsFrameCall(c) /\ IsDict(c.ft_or_frame)
IsOldCall(c) == IsFrameCall(c) /\ IsStr(c.ft_or_frame)

\* the frame type a call presents, "" when it has none
CallType(c) ==
    IF IsDictCall(c)
    THEN LET f == c.ft_or_frame.d
             ft == IF Truthy(Get(f.type)) THEN Get(f.type) ELSE Get(f.frame_type)
         IN IF IsStr(ft) THEN ft.w ELSE ""
    ELSE IF IsOldCall(c) THEN c.ft_or_frame.w
    ELSE ""

\* the claimed identity and epoch, as Python values
ClaimedSid(c) ==
    IF IsDictCall(c) THEN Get(c.ft_or_frame.d.session_id) ELSE c.claimed_session_id
ClaimedEpoch(c) ==
    IF IsDictCall(c) THEN Get(c.ft_or_frame.d.epoch) ELSE c.claimed_epoch

\* the payload after the handler's normalisation (None and a missing key
\* read as b"")
CallPayload(c) ==
    LET p == IF IsDictCall(c) THEN Get(c.ft_or_frame.d.payload) ELSE c.payload
    IN IF p.t = "none" THEN PyBytes(<<>>) ELSE p

\* the call passes the handlers' type checks of frame type, identity, epoch
\* and payload
Validated(c) ==
    /\ IsDictCall(c) \/ IsOldCall(c)
    /\ CallType(c) # ""
    /\ IsInt(ClaimedSid(c)) /\ IsInt(ClaimedEpoch(c))
    /\ IsBytes(CallPayload(c))

\* the frame's kind in its encoding
IsHandshake(c) ==
    \/ IsDictCall(c) /\ CallType(c) = "HANDSHAKE_DONE"
    \/ IsOldCall(c) /\ CallType(c) = "HS"
IsRekey(c) == IsFrameCall(c) /\ CallType(c) = "REKEY"
IsAppData(c) == IsFrameCall(c) /\ CallType(c) = "APP_DATA"

\* the mode a frame claims: the structured mode field, or the text after
\* the legacy marker; None when it claims none, "undecodable" for a marker
\* whose text is not UTF-8
ClaimedMode(c) ==
    IF IsDictCall(c) THEN Get(c.ft_or_frame.d.mode)
    ELSE IF IsOldCall(c) /\ IsBytes(CallPayload(c))
            /\ StartsWith(CallPayload(c).q, B_MODE)
         THEN LET p == CallPayload(c).q
                  d == Utf8Decode(SubSeq(p, Len(B_MODE) + 1, Len(p)))
              IN IF d.ok THEN PyStr(d.str) ELSE Py("undecodable")
    ELSE PyNone

\* the session states of the specification
INIT(ss) == ~ss.handshake_complete /\ ~ss.closed
ESTABLISHED(ss) == ss.handshake_complete /\ ~ss.closed
CLOSED(ss) == ss.closed

\* the call c made on a session, whichever operation it is
Apply(ss, c) ==
    IF c.op = "advance_epoch" THEN advance_epoch(ss)
    ELSE accept_frame(ss, c.ft_or_frame, c.payload,
                      c.claimed_session_id, c.claimed_epoch)

\* an operation the first object accepted is made on the twin as well, one
\* it did not accept is not
Replay(tw, c, outcome) ==
    IF outcome # "ok" THEN tw
    ELSE LET r == Apply(tw.s, c)
         IN [s |-> r.s, ok |-> tw.ok /\ r.outcome = "ok"]

\* the epochs of the accepted REKEY frames, in the order of their arrival
Logged(log, c, outcome) ==
    IF IsRekey(c) /\ outcome = "ok" THEN Append(log, ClaimedEpoch(c).n) ELSE log

\* accept_frame(...), run to its end: the session is updated and the
\* outcome handed to the caller
AcceptFrame ==
    /\ call = NoCall
    /\ calls < MaxCalls
    /\ \E c \in Calls :
          LET r == accept_frame(s, c.ft_or_frame, c.payload,
                                c.claimed_session_id, c.claimed_epoch)
          IN /\ s' = r.s
             /\ pre' = s
             /\ call' = c
             /\ out' = [outcome |-> r.outcome, reason |-> r.reason, ret |-> r.ret,
                        result |-> r.result]
             /\ hs_accepted' = hs_accepted
                    + (IF IsHandshake(c) /\ r.outcome = "ok" THEN 1 ELSE 0)
             /\ calls' = calls + 1
             /\ twin' = Replay(twin, c, r.outcome)
             /\ rekey_log' = Logged(rekey_log, c, r.outcome)
    /\ UNCHANGED <<coreVars, sessVars>>

\* advance_epoch(), run to its end
AdvanceEpoch ==
    /\ call = NoCall
    /\ calls < MaxCalls
    /\ LET r == advance_epoch(s)
       IN /\ s' = r.s
          /\ pre' = s
          /\ call' = AdvanceCall
          /\ out' = [outcome |-> r.outcome, reason |-> r.reason, ret |-> r.ret,
                        result |-> r.result]
          /\ UNCHANGED hs_accepted
          /\ calls' = calls + 1
          /\ twin' = Replay(twin, AdvanceCall, r.outcome)
          /\ UNCHANGED rekey_log
    /\ UNCHANGED <<coreVars, sessVars>>

\* the caller has taken the outcome and is ready to make the next call
Return ==
    /\ call # NoCall
    /\ call' = NoCall
    /\ out' = NoOutcome
    /\ pre' = s
    /\ UNCHANGED <<s, hs_accepted, calls, twin, rekey_log>>
    /\ UNCHANGED <<coreVars, sessVars>>

Next == AcceptFrame \/ AdvanceEpoch \/ Return

Spec == Init /\ [][Next]_vars

\* ---------------------------------------------- a session under replay
\* One session is given a handshake and then REKEY frames, fresh and
\* repeated, in both encodings, with advance_epoch calls in between.
ReplayEpochs == 0 .. (MaxReplayCalls - 1)
ReplayCalls ==
    {DictCall(PyName("HANDSHAKE_DONE"), PyAbsent, PyInt(1), PyInt(1), PyBytes(<<>>),
              PyAbsent),
     OldCall(PyName("HS"), PyNone, PyInt(1), PyInt(0))}
    \cup {DictCall(PyName("REKEY"), PyAbsent, PyInt(1), PyInt(e), PyBytes(p), PyAbsent) :
            e \in ReplayEpochs, p \in {<<>>, B_x}}
    \cup {OldCall(PyName("REKEY"), PyBytes(p), PyInt(1), PyInt(e)) :
            e \in ReplayEpochs, p \in {<<>>, B_x}}

\* accept_frame(...) with a handshake or a REKEY frame
ReplayFrame ==
    /\ call = NoCall
    /\ calls < MaxReplayCalls
    /\ \E c \in ReplayCalls :
          LET r == accept_frame(s, c.ft_or_frame, c.payload,
                                c.claimed_session_id, c.claimed_epoch)
          IN /\ s' = r.s
             /\ pre' = s
             /\ call' = c
             /\ out' = [outcome |-> r.outcome, reason |-> r.reason, ret |-> r.ret,
                        result |-> r.result]
             /\ hs_accepted' = hs_accepted
                    + (IF IsHandshake(c) /\ r.outcome = "ok" THEN 1 ELSE 0)
             /\ calls' = calls + 1
             /\ twin' = Replay(twin, c, r.outcome)
             /\ rekey_log' = Logged(rekey_log, c, r.outcome)
    /\ UNCHANGED <<coreVars, sessVars>>

\* advance_epoch() between the frames
ReplayAdvance ==
    /\ call = NoCall
    /\ calls < MaxReplayCalls
    /\ LET r == advance_epoch(s)
       IN /\ s' = r.s
          /\ pre' = s
          /\ call' = AdvanceCall
          /\ out' = [outcome |-> r.outcome, reason |-> r.reason, ret |-> r.ret,
                        result |-> r.result]
          /\ UNCHANGED hs_accepted
          /\ calls' = calls + 1
          /\ twin' = Replay(twin, AdvanceCall, r.outcome)
          /\ UNCHANGED rekey_log
    /\ UNCHANGED <<coreVars, sessVars>>

NextReplay == ReplayFrame \/ ReplayAdvance \/ Return
SpecReplay == Init /\ [][NextReplay]_vars

\* ----------------------------------------------- ProtocolCore (core.py)
\* ProtocolCore.server_handshake: marks the handshake complete
server_handshake(pc) == [pc EXCEPT !.handshake_complete = TRUE]

CoreResult(pc, outcome, ret) == [core |-> pc, outcome |-> outcome, ret |-> ret]

\* mutant: APP_DATA is answered without looking at handshake_complete
ProtocolCore_accept_frame_nogate(pc, frame_type, payload) ==
    IF IsStr(frame_type) /\ frame_type.w = "HS"
    THEN CoreResult(server_handshake(pc), "ok", PyBytes(B_OK_HS))
    ELSE IF IsStr(frame_type) /\ frame_type.w = "APP_DATA"
    THEN IF ~IsBytes(payload) THEN CoreResult(pc, "error", PyNone)
         ELSE CoreResult(pc, "ok", PyBytes(B_OK_APP_DATA \o payload.q))
    ELSE CoreResult(pc, "violation", PyNone)

\* ProtocolCore.accept_frame(frame_type, payload): "violation" is
\* ProtocolViolation, "error" the TypeError of b"OK:APP_DATA:" + payload
\* for a payload that is not bytes
ProtocolCore_accept_frame(pc, frame_type, payload) ==
    IF IsStr(frame_type) /\ frame_type.w = "HS"
    THEN CoreResult(server_handshake(pc), "ok", PyBytes(B_OK_HS))
    ELSE IF IsStr(frame_type) /\ frame_type.w = "APP_DATA"
    THEN IF ~pc.handshake_complete THEN CoreResult(pc, "violation", PyNone)
         ELSE IF ~IsBytes(payload) THEN CoreResult(pc, "error", PyNone)
         ELSE CoreResult(pc, "ok", PyBytes(B_OK_APP_DATA \o payload.q))
    ELSE CoreResult(pc, "violation", PyNone)

CoreFrameTypes ==
    {PyName("HS"), PyName("APP_DATA"), PyName("REKEY"), PyName("HANDSHAKE_DONE"),
     PyNone}
CorePayloads == {PyBytes(<<>>), PyBytes(B_x), PyStr(PQC_QKD)}

\* ProtocolCore.accept_frame(...), run to its end
CoreAcceptFrame ==
    /\ core_h.calls < MaxCoreCalls
    /\ \E ft \in CoreFrameTypes, p \in CorePayloads :
          LET r == ProtocolCore_accept_frame(core, ft, p)
          IN /\ core' = r.core
             /\ core_h' =
                  [pre |-> core,
                   call |-> [frame_type |-> ft, payload |-> p],
                   out |-> [outcome |-> r.outcome, ret |-> r.ret],
                   hs_accepted |-> core_h.hs_accepted
                       + (IF ft = PyName("HS") /\ r.outcome = "ok" THEN 1 ELSE 0),
                   calls |-> core_h.calls + 1]
    /\ UNCHANGED <<miniVars, sessVars>>

InitCore == MiniStart(PyNone, PyNone) /\ CoreStart /\ SessStart
NextCore == CoreAcceptFrame
SpecCore == InitCore /\ [][NextCore]_vars

\* --------------------------------------------- SessionState (session.py)
SessResult(st, outcome, ret) == [sess |-> st, outcome |-> outcome, ret |-> ret]

\* SessionState.advance_epoch: epoch += 1, returns the new epoch
SessionState_advance_epoch(st) ==
    SessResult([st EXCEPT !.epoch = st.epoch + 1], "ok", st.epoch + 1)

\* mutant: a skip ahead is let through
SessionState_set_epoch_skip(st, new_epoch) ==
    LET expected == st.epoch + 1
    IN IF new_epoch < expected THEN SessResult(st, "violation", 0)
       ELSE SessResult([st EXCEPT !.epoch = new_epoch], "ok", new_epoch)

\* SessionState.set_epoch(new_epoch): "violation" is EpochViolation
SessionState_set_epoch(st, new_epoch) ==
    LET expected == st.epoch + 1
    IN IF new_epoch # expected THEN SessResult(st, "violation", 0)
       ELSE SessResult([st EXCEPT !.epoch = new_epoch], "ok", new_epoch)

\* the epochs a caller asks set_epoch for: rollbacks, repeats, the next
\* epoch and skips, for every epoch the object is driven to
NewEpochs == (0 - 1) .. (MaxEpoch + 1)

SessAdvanceEpoch ==
    /\ sess.epoch < MaxEpoch
    /\ LET r == SessionState_advance_epoch(sess)
       IN /\ sess' = r.sess
          /\ sess_h' = [pre |-> sess,
                        call |-> [op |-> "advance_epoch", new_epoch |-> 0],
                        out |-> [outcome |-> r.outcome, ret |-> r.ret]]
    /\ UNCHANGED <<miniVars, coreVars>>

SessSetEpoch ==
    /\ sess.epoch < MaxEpoch
    /\ \E n \in NewEpochs :
          LET r == SessionState_set_epoch(sess, n)
          IN /\ sess' = r.sess
             /\ sess_h' = [pre |-> sess,
                           call |-> [op |-> "set_epoch", new_epoch |-> n],
                           out |-> [outcome |-> r.outcome, ret |-> r.ret]]
    /\ UNCHANGED <<miniVars, coreVars>>

NextSession == SessAdvanceEpoch \/ SessSetEpoch
SpecSession == InitCore /\ [][NextSession]_vars

\* ================================================================ claims
\* the claimed identity equals the established one
SidMatches(c, ss) == ClaimedSid(c) = PyInt(ss.session_id)
\* the frame claims no mode, or the pinned one
ModeAgrees(c, ss) == ClaimedMode(c).t = "none" \/ ClaimedMode(c) = ss.mode
\* the call ended in a ProtocolViolation with this reason
Violation(reason) == out.outcome = "violation" /\ out.reason = reason

\* C1 (as claimed): once some call has ended in a Violation, so that the
\* session is closed, every later accept_frame call fails, whatever the
\* frame's type, epoch, identity or encoding.
C1_ClosedIsAbsorbing ==
    (IsFrameCall(call) /\ pre.closed) => out.outcome # "ok"

\* C2 (as claimed): on an established session at epoch E, a REKEY frame
\* (well-typed, with the established identity and no conflicting mode, in
\* either encoding) succeeds if and only if its claimed epoch is E+1; with
\* any other epoch it fails with 'bad rekey epoch' and the session is closed.
C2_RekeyIffNextEpoch ==
    (IsRekey(call) /\ Validated(call) /\ ESTABLISHED(pre)
        /\ SidMatches(call, pre) /\ ModeAgrees(call, pre))
    => IF ClaimedEpoch(call).n = pre.epoch + 1
       THEN out.outcome = "ok" /\ s.epoch = pre.epoch + 1
       ELSE Violation("bad rekey epoch") /\ s.closed

\* C3: on an established session at epoch E, an APP_DATA frame (well-typed,
\* with the established identity and no conflicting mode, in either
\* encoding) succeeds if and only if its claimed epoch is E, the epoch
\* current at the call; with any other epoch it fails with 'epoch mismatch'
\* and the session is closed.
C3_AppDataIffCurrentEpoch ==
    (IsAppData(call) /\ Validated(call) /\ ESTABLISHED(pre)
        /\ SidMatches(call, pre) /\ ModeAgrees(call, pre))
    => IF ClaimedEpoch(call).n = pre.epoch
       THEN out.outcome = "ok" /\ ~s.closed
       ELSE Violation("epoch mismatch") /\ s.closed

\* C3 witness: the legacy handshake at epoch 0 followed by advance_epoch()
\* leaves epoch 1, and the APP_DATA frame claiming epoch 0, valid before the
\* advance, is now rejected.
C3_Witness ==
    LET h == accept_frame(MiniSession(PyInt(1)), Arg(PyName("HS")), PyNone, PyInt(1), PyInt(0))
        a == advance_epoch(h.s)
        before == accept_frame(h.s, Arg(PyName("APP_DATA")), PyBytes(B_x), PyInt(1), PyInt(0))
    IN /\ before.outcome = "ok"
       /\ a.outcome = "ok"
       /\ pre = a.s
       /\ call = OldCall(PyName("APP_DATA"), PyBytes(B_x), PyInt(1), PyInt(0))
       /\ Violation("epoch mismatch")
       /\ s.closed

\* C4 (as claimed): an APP_DATA or REKEY frame is accepted only after a
\* HANDSHAKE frame was accepted on the same session; arriving on a session
\* that never accepted a handshake it fails with 'before handshake' and the
\* session is closed.
C4_HandshakeGating ==
    /\ ((IsAppData(call) \/ IsRekey(call)) /\ out.outcome = "ok")
          => hs_accepted > 0
    /\ ((IsAppData(call) \/ IsRekey(call)) /\ Validated(call) /\ hs_accepted = 0)
          => (Violation("before handshake") /\ s.closed)

\* C5: at most one HANDSHAKE frame is ever accepted on a session, and once
\* one has been accepted every later well-typed HANDSHAKE frame (any
\* identity, epoch, mode, either encoding) fails with 'Duplicate handshake'
\* and the session is closed.
C5_SingleHandshake ==
    /\ hs_accepted <= 1
    /\ (IsHandshake(call) /\ Validated(call) /\ hs_accepted = 1 /\ out.outcome # "ok")
          => (Violation("Duplicate handshake") /\ s.closed)

\* C5 witness: a second handshake, with another identity, epoch and mode,
\* rejected as a duplicate
C5_Witness ==
    /\ hs_accepted = 1
    /\ IsHandshake(call) /\ IsDictCall(call)
    /\ ESTABLISHED(pre)
    /\ ClaimedSid(call) # PyInt(pre.session_id)
    /\ ClaimedEpoch(call) # PyInt(pre.epoch)
    /\ ClaimedMode(call).t = "str" /\ ClaimedMode(call) # pre.mode
    /\ Violation("Duplicate handshake")
    /\ s.closed

\* C6 (as claimed): after the handshake, every frame that claims a mode
\* different from the pinned one fails with 'downgrade detected', whatever
\* its type (HANDSHAKE, REKEY, APP_DATA or unrecognized).
C6_DowngradeAnyType ==
    (IsFrameCall(call) /\ Validated(call) /\ pre.handshake_complete
        /\ ClaimedMode(call).t = "str" /\ ClaimedMode(call) # pre.mode)
    => Violation("downgrade detected")

\* C6 (amended): the mode pinned at handshake never changes; after the
\* handshake a well-typed frame that claims a different mode fails and
\* closes the session, with 'downgrade detected' when it is a REKEY,
\* APP_DATA or unrecognized frame and with 'Duplicate handshake' when it is
\* a HANDSHAKE frame; a frame claiming the pinned mode is not rejected for
\* its mode.
C6_ModePinned ==
    (IsFrameCall(call) /\ Validated(call) /\ pre.handshake_complete)
    => /\ s.mode = pre.mode
       /\ (ClaimedMode(call).t = "str" /\ ClaimedMode(call) # pre.mode)
             => /\ s.closed
                /\ IF IsHandshake(call) THEN Violation("Duplicate handshake")
                   ELSE Violation("downgrade detected")
       /\ ClaimedMode(call) = pre.mode
             => out.reason \notin {"downgrade detected", "Invalid mode"}

\* C6 witness: the structured REKEY frame claiming PQC_ONLY on a session
\* pinned to PQC+QKD
C6_Witness ==
    /\ IsRekey(call) /\ IsDictCall(call) /\ ESTABLISHED(pre)
    /\ pre.mode = PyStr(PQC_QKD)
    /\ ClaimedMode(call) = PyStr(PQC_ONLY)
    /\ ClaimedEpoch(call) = PyInt(pre.epoch + 1)
    /\ SidMatches(call, pre)
    /\ Violation("downgrade detected")
    /\ s.closed /\ s.mode = PyStr(PQC_QKD)

\* C7 (as claimed): on an established session every frame whose claimed
\* identity differs from session_id fails with 'session mismatch', for
\* every frame type, epoch and claimed mode.
C7_MismatchAnyFrame ==
    (IsFrameCall(call) /\ Validated(call) /\ ESTABLISHED(pre)
        /\ ~SidMatches(call, pre))
    => Violation("session mismatch")

\* C7 (amended): on an established session a well-typed frame whose claimed
\* identity differs from session_id is never accepted and closes the
\* session; the reason is 'session mismatch' unless the frame is a
\* HANDSHAKE frame ('Duplicate handshake') or carries a mode claim that
\* does not agree with the pinned mode ('downgrade detected', or 'Invalid
\* mode' for a claim that is not text), these guards running first.
C7_SessionMismatch ==
    (IsFrameCall(call) /\ Validated(call) /\ ESTABLISHED(pre)
        /\ ~SidMatches(call, pre))
    => /\ out.outcome = "violation"
       /\ s.closed
       /\ out.reason =
            IF IsHandshake(call) THEN "Duplicate handshake"
            ELSE IF ModeAgrees(call, pre) THEN "session mismatch"
            ELSE IF ClaimedMode(call).t = "str" THEN "downgrade detected"
            ELSE "Invalid mode"

\* C7 witness: an APP_DATA frame with the current epoch and another identity
C7_Witness ==
    /\ IsAppData(call) /\ Validated(call) /\ ESTABLISHED(pre)
    /\ ~SidMatches(call, pre)
    /\ ClaimedEpoch(call) = PyInt(pre.epoch)
    /\ ModeAgrees(call, pre)
    /\ Violation("session mismatch")
    /\ s.closed

\* C8: whenever a call (accept_frame or advance_epoch) ends in a Violation,
\* the session's closed flag is true right after the call.
C8_ViolationCloses ==
    out.outcome = "violation" => s.closed

\* C8 witness: advance_epoch() on a fresh session, which was open before
C8_Witness ==
    /\ call = AdvanceCall
    /\ INIT(pre)
    /\ Violation("before handshake")
    /\ s.closed

\* C9 (as claimed): advance_epoch is permitted only in ESTABLISHED, where it
\* increments epoch by exactly 1 and re-derives key_material; in INIT or on
\* a closed session it fails with a Violation and leaves epoch as it was.
C9_AdvanceOnlyEstablished ==
    (call.op = "advance_epoch")
    => IF ESTABLISHED(pre)
       THEN /\ out.outcome = "ok"
            /\ s.epoch = pre.epoch + 1
            /\ s.key_material # pre.key_material
       ELSE /\ out.outcome = "violation"
            /\ s.epoch = pre.epoch

\* ---- the two encodings of one frame
\* the handshake's type tag in the other encoding
SwapName(w) ==
    IF w = "HANDSHAKE_DONE" THEN "HS" ELSE IF w = "HS" THEN "HANDSHAKE_DONE" ELSE w

\* the frame has a counterpart in the other encoding: its fields pass the
\* type checks, its mode claim (if any) is text, and, as a legacy payload
\* that starts with the marker is a mode claim and nothing else, a
\* structured frame carries either a mode or a payload without the marker
Representable(c) ==
    /\ Validated(c)
    /\ ClaimedMode(c).t \in {"none", "str"}
    /\ IsDictCall(c) =>
          /\ c.ft_or_frame.d.mode.t \in {"absent", "str"}
          /\ IF ClaimedMode(c).t = "str" THEN CallPayload(c).q = <<>>
             ELSE ~StartsWith(CallPayload(c).q, B_MODE)

\* the same frame contents presented in the other encoding
Counterpart(c) ==
    IF IsDictCall(c)
    THEN OldCall(PyName(SwapName(CallType(c))),
                 IF ClaimedMode(c).t = "str"
                 THEN PyBytes(B_MODE \o Utf8Encode(ClaimedMode(c).q))
                 ELSE CallPayload(c),
                 ClaimedSid(c), ClaimedEpoch(c))
    ELSE DictCall(PyName(SwapName(CallType(c))), PyAbsent,
                  ClaimedSid(c), ClaimedEpoch(c),
                  IF ClaimedMode(c).t = "str" THEN PyBytes(<<>>) ELSE CallPayload(c),
                  IF ClaimedMode(c).t = "str" THEN ClaimedMode(c) ELSE PyAbsent)

\* what the call's counterpart does on the session the call was made on
OtherEncoding ==
    LET cc == Counterpart(call)
    IN accept_frame(pre, cc.ft_or_frame, cc.payload,
                    cc.claimed_session_id, cc.claimed_epoch)

\* a HANDSHAKE frame on a session whose handshake is not complete
FreshHandshake(c, ss) == IsHandshake(c) /\ ~ss.handshake_complete

\* C10 (as claimed): a frame gives, in the structured and in the legacy
\* encoding, the same outcome (accepted, or rejected with the same reason)
\* and the same resulting session state, key_material included; only a
\* handshake below the structured minimum epoch of 1 may differ.
C10_EncodingsIdentical ==
    (IsFrameCall(call) /\ Representable(call)
        /\ ~(FreshHandshake(call, pre) /\ ClaimedEpoch(call).n < 1))
    => /\ OtherEncoding.outcome = out.outcome
       /\ OtherEncoding.reason = out.reason
       /\ OtherEncoding.s = s

\* C10 (amended): for frames whose fields pass the type checks, the mode
\* claim being the mode field in the structured and the 'MODE:' marker
\* payload in the legacy encoding, both encodings give the same outcome
\* (accepted, or rejected with the same reason) and the same session_id,
\* epoch, mode, handshake_complete and closed, and the same key_material
\* when the frame claims no mode; excepted is a HANDSHAKE frame on a session
\* whose handshake is not complete, which agrees (key_material included)
\* when its epoch is at least 1 and it claims no mode or the default mode.
C10_EncodingsAgree ==
    (IsFrameCall(call) /\ Representable(call))
    => LET o == OtherEncoding
           same == /\ o.outcome = out.outcome
                   /\ o.reason = out.reason
                   /\ o.s.session_id = s.session_id
                   /\ o.s.epoch = s.epoch
                   /\ o.s.mode = s.mode
                   /\ o.s.handshake_complete = s.handshake_complete
                   /\ o.s.closed = s.closed
       IN IF FreshHandshake(call, pre)
          THEN (ClaimedEpoch(call).n >= 1
                  /\ (ClaimedMode(call).t = "none"
                        \/ ClaimedMode(call) = PyStr(DefaultMode)))
               => (same /\ o.s = s)
          ELSE /\ same
               /\ ClaimedMode(call).t = "none" => o.s = s

\* C10 witness: a legacy REKEY frame whose marker claims the pinned mode is
\* accepted, as is its structured counterpart
C10_Witness ==
    /\ IsRekey(call) /\ IsOldCall(call) /\ Representable(call)
    /\ ESTABLISHED(pre)
    /\ ClaimedMode(call) = pre.mode
    /\ out.outcome = "ok"
    /\ OtherEncoding.outcome = "ok"
    /\ OtherEncoding.s.epoch = s.epoch

\* C11: the fingerprint is a function of the sequence of accepted operations
\* only: a second session, constructed on its own (with or without an
\* expected identity) and given exactly the operations the first one
\* accepted, all of which it accepts too, has after each step the same
\* key_material fingerprint as the first, whatever rejected calls the
\* first one saw in between.
C11_FingerprintPure ==
    twin.ok => fingerprint_hex(twin.s) = fingerprint_hex(s)

\* C11 witness: the first session was closed by a rejected call and then
\* accepted a REKEY frame, the twin was constructed with another expected
\* identity and never saw the rejected call; both went through the
\* handshake and the REKEY
C11_Witness ==
    /\ twin.ok
    /\ twin.s.expected_session_id # s.expected_session_id
    /\ IsRekey(call) /\ out.outcome = "ok"
    /\ pre.closed /\ ~twin.s.closed
    /\ hs_accepted = 1
    /\ twin.s.epoch = s.epoch
    /\ s.key_material # pre.key_material
    /\ fingerprint_hex(twin.s) = fingerprint_hex(s)

\* the frame passes the type checks, its mode field included (a structured
\* frame's mode key is missing or holds text)
WellTyped(c) ==
    /\ Validated(c)
    /\ IsDictCall(c) => c.ft_or_frame.d.mode.t \in {"absent", "str"}

\* the minimum handshake epoch of the frame's encoding
HandshakeEpochMin(c) == IF IsDictCall(c) THEN 1 ELSE 0

\* C12 (as claimed): a well-typed HANDSHAKE frame on a session whose
\* handshake is not complete succeeds if and only if its epoch meets the
\* encoding's minimum (structured 1, legacy 0) and its identity equals the
\* expected identity when one was given; on success session_id and epoch
\* are the claimed values and handshake_complete is true, otherwise the
\* call is a Violation, the session is closed and handshake_complete stays
\* false.
C12_HandshakeIff ==
    (IsHandshake(call) /\ WellTyped(call) /\ ~pre.handshake_complete)
    => IF /\ ClaimedEpoch(call).n >= HandshakeEpochMin(call)
          /\ ExpectedIdOk(ClaimedSid(call).n, pre.expected_session_id)
       THEN /\ out.outcome = "ok"
            /\ s.session_id = ClaimedSid(call).n
            /\ s.epoch = ClaimedEpoch(call).n
            /\ s.handshake_complete
       ELSE /\ out.outcome = "violation"
            /\ s.closed
            /\ ~s.handshake_complete

\* ---- ProtocolCore
\* the last ProtocolCore call presented this frame type
CoreCallIs(w) == core_h.call.frame_type = PyName(w)
CoreCalled == core_h.out.outcome # "none"

\* C13: on a ProtocolCore driven by accept_frame calls only, an APP_DATA
\* frame is accepted only if an HS frame was accepted before it; an APP_DATA
\* frame before any HS raises ProtocolViolation and leaves
\* handshake_complete false; a frame whose type is neither HS nor APP_DATA
\* is always rejected with ProtocolViolation.
C13_CoreGating ==
    /\ (CoreCallIs("APP_DATA") /\ core_h.out.outcome = "ok")
          => core_h.hs_accepted > 0
    /\ (CoreCallIs("APP_DATA") /\ core_h.hs_accepted = 0)
          => (core_h.out.outcome = "violation" /\ ~core.handshake_complete)
    /\ (CoreCalled /\ ~CoreCallIs("HS") /\ ~CoreCallIs("APP_DATA"))
          => (core_h.out.outcome = "violation" /\ core = core_h.pre)

\* C13 witness: after two rejected calls and no HS, an APP_DATA frame with
\* a payload is rejected and the gate stays shut
C13_Witness ==
    /\ CoreCallIs("APP_DATA")
    /\ core_h.call.payload = PyBytes(B_x)
    /\ core_h.hs_accepted = 0
    /\ core_h.calls = 3
    /\ core_h.out.outcome = "violation"
    /\ ~core.handshake_complete

\* ---- SessionState
SessCalled == sess_h.out.outcome # "none"

\* C14: on a SessionState starting from epoch 0 and driven by advance_epoch
\* and set_epoch calls, the epoch never decreases and every successful call
\* raises it by exactly 1; set_epoch(n) succeeds if and only if n is the
\* current epoch + 1, and any rollback, repeat or skip raises EpochViolation
\* and leaves the epoch as it was.
C14_EpochMonotone ==
    /\ sess.epoch >= sess_h.pre.epoch
    /\ sess_h.out.outcome = "ok"
          => (sess.epoch = sess_h.pre.epoch + 1 /\ sess_h.out.ret = sess.epoch)
    /\ sess_h.call.op = "advance_epoch" => sess_h.out.outcome = "ok"
    /\ sess_h.call.op = "set_epoch"
          => IF sess_h.call.new_epoch = sess_h.pre.epoch + 1
             THEN sess_h.out.outcome = "ok"
             ELSE sess_h.out.outcome = "violation" /\ sess.epoch = sess_h.pre.epoch

\* C14 witness: at epoch 3 a skip to epoch 5 is refused
C14_Witness ==
    /\ sess_h.call.op = "set_epoch"
    /\ sess_h.pre.epoch = 3
    /\ sess_h.call.new_epoch = 5
    /\ sess_h.out.outcome = "violation"
    /\ sess.epoch = 3

\* ---- MiniCore, continued
\* C15 (as claimed): once the closed flag is true no further mutation
\* occurs: whatever call is made on a closed session, session_id, epoch,
\* mode, handshake_complete and key_material keep the values they had.
C15_ClosedIsFrozen ==
    pre.closed
    => /\ s.session_id = pre.session_id
       /\ s.epoch = pre.epoch
       /\ s.mode = pre.mode
       /\ s.handshake_complete = pre.handshake_complete
       /\ s.key_material = pre.key_material

\* the call was accepted: it returned normally
Accepted == out.outcome = "ok"

\* C16: in every step of a MiniCore session the epoch never decreases, and
\* every accepted REKEY increases it by exactly 1: the epoch after it is
\* the epoch before it plus 1 and is the frame's claimed epoch.
C16_EpochMonotone ==
    /\ s.epoch >= pre.epoch
    /\ (IsRekey(call) /\ Accepted)
          => /\ s.epoch = pre.epoch + 1
             /\ PyInt(s.epoch) = ClaimedEpoch(call)

\* C16 witness: an accepted REKEY on a session whose key was already rotated
\* once since the handshake
C16_Witness ==
    /\ IsRekey(call) /\ Accepted
    /\ hs_accepted = 1 /\ calls = 3
    /\ s.epoch = pre.epoch + 1
    /\ s.epoch >= 2
    /\ pre.key_material # _h(B_hs \o to_bytes(s.session_id, FALSE).b
                               \o to_bytes(pre.epoch, TRUE).b \o Utf8Encode(s.mode.q))
    /\ ~s.closed

\* a handshake had succeeded on the session before the call was made
HandshakeSucceededBefore ==
    hs_accepted > (IF IsHandshake(call) /\ Accepted THEN 1 ELSE 0)

\* C17: session_id and mode are immutable once set: after a handshake has
\* succeeded no accept_frame or advance_epoch call, accepted or rejected, in
\* either encoding, changes session_id or the pinned mode.
C17_IdentityAndModeFixed ==
    HandshakeSucceededBefore
    => (s.session_id = pre.session_id /\ s.mode = pre.mode)

\* C17 witness: a session established with identity 2 and mode PQC_ONLY is
\* closed by a rejected call and then accepts a structured REKEY frame;
\* identity and mode are as the handshake set them
C17_Witness ==
    /\ hs_accepted = 1 /\ calls = 3
    /\ IsRekey(call) /\ IsDictCall(call) /\ Accepted
    /\ pre.closed
    /\ s.session_id = 2 /\ pre.session_id = 2
    /\ s.mode = PyStr(PQC_ONLY) /\ pre.mode = PyStr(PQC_ONLY)
    /\ s.epoch = pre.epoch + 1

\* the frame claims this mode, as text
ClaimsMode(c, mode) == ClaimedMode(c).t = "str" /\ ClaimedMode(c) = mode

\* the calls made right after the present one that are rejected as a
\* downgrade
Downgrades == {c \in Calls : Apply(s, c).reason = "downgrade detected"}

\* C18 (as claimed): an accepted handshake pins the mode its frame claims
\* (the mode field, or the text after the legacy 'MODE:' marker) or the
\* default 'PQC+QKD' when it claims none, so that no later frame claiming
\* the same mode as the handshake frame is rejected as a downgrade.
C18_PinsClaimedMode ==
    (IsHandshake(call) /\ Accepted)
    => /\ s.mode = IF ClaimedMode(call).t = "str" THEN ClaimedMode(call)
                   ELSE PyStr(DefaultMode)
       /\ \A c \in Downgrades : ~ClaimsMode(c, ClaimedMode(call))

\* C18 (amended): an accepted structured handshake pins the mode field's
\* value, or 'PQC+QKD' when the frame has none; an accepted legacy handshake
\* pins 'PQC+QKD' whatever its payload, a 'MODE:' marker being ignored at
\* handshake.  A later frame claiming the pinned mode is never rejected as
\* a downgrade; after a legacy handshake whose marker named another mode, a
\* later well-typed REKEY, APP_DATA or unrecognized frame claiming the
\* marker's mode is rejected as a downgrade.
C18_PinsFieldOrDefault ==
    (IsHandshake(call) /\ Accepted)
    => /\ s.mode = IF IsDictCall(call) /\ ClaimedMode(call).t = "str"
                   THEN ClaimedMode(call)
                   ELSE PyStr(DefaultMode)
       /\ \A c \in Downgrades : ~ClaimsMode(c, s.mode)
       /\ (IsOldCall(call) /\ ClaimedMode(call).t = "str"
              /\ ClaimedMode(call) # PyStr(DefaultMode))
             => \A c \in Calls :
                   (Validated(c) /\ ~IsHandshake(c) /\ ClaimsMode(c, ClaimedMode(call)))
                   => c \in Downgrades

\* C18 witness: a legacy handshake whose payload is the marker for PQC_ONLY
\* is accepted and pins PQC+QKD; the structured APP_DATA frame for the
\* session's identity and epoch is then a downgrade when it claims PQC_ONLY
\* and accepted when it claims PQC+QKD
C18_Witness ==
    /\ IsHandshake(call) /\ IsOldCall(call) /\ Accepted
    /\ ClaimedMode(call) = PyStr(PQC_ONLY)
    /\ s.mode = PyStr(PQC_QKD)
    /\ s.session_id = 1 /\ s.epoch = 1
    /\ DictCall(PyName("APP_DATA"), PyAbsent, PyInt(1), PyInt(1), PyBytes(<<>>),
                PyStr(PQC_ONLY)) \in Downgrades
    /\ Apply(s, DictCall(PyName("APP_DATA"), PyAbsent, PyInt(1), PyInt(1),
                         PyBytes(<<>>), PyStr(PQC_QKD))).outcome = "ok"

\* ---- malformed input
\* the reasons of the type checks
ValidationReasons ==
    {"Invalid frame input", "Missing frame type", "Invalid session_id or epoch",
     "Invalid claimed_session_id or claimed_epoch", "Invalid payload",
     "Invalid mode"}

\* the frame's mode claim is not text: a structured mode field holding a
\* value that is neither None nor a str, or a legacy marker whose text is
\* not UTF-8
MalformedMode(c) ==
    \/ IsDictCall(c) /\ c.ft_or_frame.d.mode.t \notin {"absent", "none", "str"}
    \/ IsOldCall(c) /\ ClaimedMode(c).t = "undecodable"

\* type, identity, epoch or payload fail their type check, or the mode does
Malformed(c) == IsFrameCall(c) /\ (~Validated(c) \/ MalformedMode(c))

\* the reason with which the type checks of type, identity, epoch and
\* payload reject a frame that fails one of them
ValidationReason(c) ==
    IF ~IsDictCall(c) /\ ~IsOldCall(c) THEN "Invalid frame input"
    ELSE IF IsDictCall(c) /\ CallType(c) = "" THEN "Missing frame type"
    ELSE IF ~IsInt(ClaimedSid(c)) \/ ~IsInt(ClaimedEpoch(c))
         THEN IF IsDictCall(c) THEN "Invalid session_id or epoch"
              ELSE "Invalid claimed_session_id or claimed_epoch"
    ELSE "Invalid payload"

\* the protocol guard that rejects a well-typed frame before its mode is
\* looked at, "" when none does
GuardBeforeMode(c, ss) ==
    IF IsHandshake(c)
    THEN IF ss.handshake_complete THEN "Duplicate handshake"
         ELSE IF IsDictCall(c) /\ ClaimedEpoch(c).n < 1 THEN "Handshake epoch must be >= 1"
         ELSE IF IsDictCall(c) /\ ~ExpectedIdOk(ClaimedSid(c).n, ss.expected_session_id)
              THEN "session mismatch"
         ELSE ""
    ELSE IF ~ss.handshake_complete THEN "before handshake"
    ELSE ""

\* C19 (as claimed): malformed input (non-integer identity or epoch,
\* non-string type, non-byte payload, non-string mode) is rejected with a
\* validation reason of its own, before any protocol guard, in every
\* session state, and the rejection closes the session.
C19_MalformedFirst ==
    Malformed(call)
    => /\ out.outcome = "violation"
       /\ out.reason \in ValidationReasons
       /\ s.closed

\* C19 (amended): a frame whose type, identity, epoch or payload fails its
\* type check is rejected with the reason of that check before any protocol
\* guard, in every session state, and the session is closed and otherwise
\* unchanged.  A frame that passes those checks and carries a mode claim
\* that is not text is rejected and closes the session as well, but its
\* mode is looked at after the guards for a duplicate handshake, the
\* structured handshake's minimum epoch and expected identity, and
\* 'before handshake': the reason is that guard's when one fires and
\* 'Invalid mode' otherwise.  A legacy HANDSHAKE frame is excepted: its
\* payload is not looked at, marker or not.
C19_TypeChecksFirst ==
    /\ (IsFrameCall(call) /\ ~Validated(call))
          => /\ Violation(ValidationReason(call))
             /\ s = [pre EXCEPT !.closed = TRUE]
    /\ (IsFrameCall(call) /\ Validated(call) /\ MalformedMode(call)
           /\ ~(IsOldCall(call) /\ IsHandshake(call) /\ ~pre.handshake_complete))
          => /\ out.outcome = "violation"
             /\ s = [pre EXCEPT !.closed = TRUE]
             /\ out.reason = IF GuardBeforeMode(call, pre) # ""
                             THEN GuardBeforeMode(call, pre)
                             ELSE "Invalid mode"

\* C19 witness: on an established session a structured HANDSHAKE frame whose
\* mode is a number is rejected as a duplicate handshake, the mode not
\* having been looked at
C19_Witness ==
    /\ IsDictCall(call) /\ IsHandshake(call) /\ Validated(call)
    /\ MalformedMode(call)
    /\ ESTABLISHED(pre)
    /\ Violation("Duplicate handshake")
    /\ s.closed

\* ---- the key-material chain
\* C20 (as claimed): every accepted transition (handshake, REKEY, APP_DATA,
\* advance_epoch) replaces key_material, so that key_material after it
\* differs from key_material before it.
C20_EveryTransitionRekeys ==
    (call # NoCall /\ Accepted) => s.key_material # pre.key_material

\* C20 (amended): an accepted handshake sets key_material to the hash of
\* "hs", the identity, the epoch and the pinned mode; an accepted REKEY and
\* an accepted advance_epoch replace it by the hash of the prior chain value
\* followed by "rekey", the new epoch and the payload, respectively by
\* "advance" and the new epoch; after each of these key_material differs
\* from what it was.  An accepted APP_DATA frame leaves key_material as it
\* was.
C20_ChainSteps ==
    (call # NoCall /\ Accepted)
    => LET eb == to_bytes(s.epoch, TRUE).b
       IN IF IsAppData(call) THEN s.key_material = pre.key_material
          ELSE /\ s.key_material # pre.key_material
               /\ s.key_material =
                    IF IsHandshake(call)
                    THEN _h(B_hs \o to_bytes(s.session_id, FALSE).b \o eb
                              \o Utf8Encode(s.mode.q))
                    ELSE IF IsRekey(call)
                    THEN _h(pre.key_material \o B_rekey \o eb \o CallPayload(call).q)
                    ELSE _h(pre.key_material \o B_advance \o eb)

\* C20 witness: after a handshake and an advance_epoch, an APP_DATA frame
\* with a payload is accepted and the chain value stays the one
\* advance_epoch left
C20_Witness ==
    /\ IsAppData(call) /\ Accepted
    /\ CallPayload(call).q = B_x
    /\ calls = 3 /\ hs_accepted = 1
    /\ pre.key_material =
          _h(_h(B_hs \o to_bytes(s.session_id, FALSE).b
                  \o to_bytes(s.epoch - 1, TRUE).b \o Utf8Encode(s.mode.q))
             \o B_advance \o to_bytes(s.epoch, TRUE).b)
    /\ s.key_material = pre.key_material

\* ---- frame effects
\* C21: an accepted APP_DATA frame leaves epoch, session_id, mode,
\* handshake_complete and closed as they were before the call, so that a
\* session that was ESTABLISHED is ESTABLISHED after it, at the same epoch.
C21_AppDataFrame ==
    (IsAppData(call) /\ Accepted)
    => /\ s.epoch = pre.epoch
       /\ s.session_id = pre.session_id
       /\ s.mode = pre.mode
       /\ s.handshake_complete = pre.handshake_complete
       /\ s.closed = pre.closed
       /\ ESTABLISHED(pre) => ESTABLISHED(s)

\* C21 witness: the third call on a session, a structured APP_DATA frame
\* with a payload, is accepted; the session is ESTABLISHED at epoch 2
\* before and after
C21_Witness ==
    /\ IsAppData(call) /\ IsDictCall(call) /\ Accepted
    /\ CallPayload(call).q # <<>>
    /\ calls = 3 /\ hs_accepted = 1
    /\ ESTABLISHED(pre) /\ ESTABLISHED(s)
    /\ pre.epoch = 2 /\ s.epoch = 2
    /\ s.session_id = pre.session_id /\ s.mode = pre.mode

\* ---- replay
\* the epochs REKEY frames had been accepted with before the call was made
RekeyedBefore ==
    LET n == IF IsRekey(call) /\ Accepted THEN Len(rekey_log) - 1 ELSE Len(rekey_log)
    IN {rekey_log[i] : i \in 1..n}

\* C22: within one session no epoch is accepted by REKEY twice: once a
\* REKEY frame claiming epoch N was accepted, every later REKEY frame
\* claiming N is rejected with a Violation and closes the session, whatever
\* REKEY frames and advance_epoch calls came in between; the reason is
\* 'bad rekey epoch' when the frame is the accepted one sent again, that
\* is well-typed with the session's identity and no conflicting mode.
C22_NoRekeyReplay ==
    /\ \A i, j \in 1..Len(rekey_log) : i < j => rekey_log[i] < rekey_log[j]
    /\ (IsRekey(call) /\ IsInt(ClaimedEpoch(call))
           /\ ClaimedEpoch(call).n \in RekeyedBefore)
          => /\ out.outcome = "violation"
             /\ s.closed
             /\ s.epoch = pre.epoch
             /\ (Validated(call) /\ SidMatches(call, pre) /\ ModeAgrees(call, pre))
                   => Violation("bad rekey epoch")

\* C22 witness: the REKEY frame for epoch 2 was accepted, then an
\* advance_epoch and another REKEY moved the session on to epoch 4, and the
\* frame for epoch 2, sent again, is rejected
C22_Witness ==
    /\ call = DictCall(PyName("REKEY"), PyAbsent, PyInt(1), PyInt(2), PyBytes(B_x),
                       PyAbsent)
    /\ rekey_log = <<2, 4>>
    /\ pre.epoch = 4 /\ ~pre.closed
    /\ Violation("bad rekey epoch")
    /\ s.closed /\ s.epoch = 4

\* ---- failed calls
\* C23: a call that ends in a Violation changes nothing in the session but
\* the closed flag: session_id, epoch, mode, handshake_complete and
\* key_material (and expected_session_id) are what they were before the
\* rejected accept_frame or advance_epoch call, for every rejection reason.
C23_ViolationKeepsState ==
    out.outcome = "violation"
    => /\ s.session_id = pre.session_id
       /\ s.epoch = pre.epoch
       /\ s.mode = pre.mode
       /\ s.handshake_complete = pre.handshake_complete
       /\ s.key_material = pre.key_material
       /\ s = [pre EXCEPT !.closed = TRUE]

\* C23 witness: an open session with its handshake done rejects, as its
\* third call, a REKEY frame that skips an epoch; it is closed and keeps
\* its identity, epoch, mode and key material
C23_Witness ==
    /\ IsRekey(call) /\ Validated(call)
    /\ ESTABLISHED(pre)
    /\ calls = 3
    /\ pre.key_material # B_init
    /\ pre.epoch = s.epoch
    /\ ClaimedEpoch(call).n = pre.epoch + 2
    /\ Violation("bad rekey epoch")
    /\ s.closed
    /\ s.key_material = pre.key_material
    /\ s.session_id = pre.session_id /\ s.mode = pre.mode

\* the key material a completed handshake leaves for this identity, epoch
\* and mode
HandshakeKey(sid, epoch, mode) ==
    _h(B_hs \o to_bytes(sid, FALSE).b \o to_bytes(epoch, TRUE).b \o Utf8Encode(mode.q))

\* C24 (as claimed): a handshake is all-or-nothing for every integer
\* identity and epoch, those the 8-byte encodings cannot represent
\* included: a handshake call either fails with session_id, epoch, mode,
\* handshake_complete and key_material untouched, or completes fully
\* (handshake_complete set and key_material derived from the identity,
\* epoch and mode it stored); and in every reachable state
\* handshake_complete implies that key_material is no longer the initial
\* placeholder.
C24_HandshakeAllOrNothing ==
    /\ (IsHandshake(call) /\ IsInt(ClaimedSid(call)) /\ IsInt(ClaimedEpoch(call)))
          => IF Accepted
             THEN /\ s.handshake_complete
                  /\ s.key_material = HandshakeKey(s.session_id, s.epoch, s.mode)
             ELSE /\ s.session_id = pre.session_id
                  /\ s.epoch = pre.epoch
                  /\ s.mode = pre.mode
                  /\ s.handshake_complete = pre.handshake_complete
                  /\ s.key_material = pre.key_material
    /\ s.handshake_complete => s.key_material # B_init
====
